---- MODULE Spec2Model ----
(***************************************************************************)
(* Model of qgis_plugin_gpq_downloader.py: the Worker that extracts a      *)
(* GeoParquet subset through a DuckDB connection, the DataSourceDialog     *)
(* that validates a source, and the QgisPluginGeoParquet coordinator that  *)
(* owns one worker / thread pair at a time.                                *)
(*                                                                         *)
(* Two execution contexts are modelled: the control context (the Qt main   *)
(* thread, which runs run, download_and_save, cleanup_thread, unload and   *)
(* the slots connected to the worker's signals) and one background thread  *)
(* per Worker.  A signal emitted by a worker is posted to the control      *)
(* context's event queue and its slot runs when the control context is     *)
(* back in its event loop (Qt's cross-thread delivery).                    *)
(*                                                                         *)
(* Strings that the code inspects are sequences of pieces, so that         *)
(* lower(), upper(), `in` and endswith() are computed, not assumed:        *)
(* a column name is a sequence of characters, a column type a sequence of  *)
(* type tokens, a file name a sequence whose last piece is its extension.  *)
(***************************************************************************)
EXTENDS Naturals, Sequences, FiniteSets, TLC

\* Number of download_and_save calls explored (one Worker per call).
MaxReq == 2

\* Longest schema explored by the query-builder specification.
MaxCols == 2

None == 0

Workers == 1..MaxReq

(***************************************************************************)
(* Strings                                                                 *)
(***************************************************************************)

\* str.lower() on the characters that occur in the explored column names.
LowerChar(c) ==
    CASE c = "B" -> "b"
      [] c = "O" -> "o"
      [] c = "X" -> "x"
      [] OTHER   -> c

Lower(s) == [i \in 1..Len(s) |-> LowerChar(s[i])]

\* str.upper() on the type tokens that occur in the explored column types.
UpperTok(t) ==
    CASE t = "struct" -> "STRUCT"
      [] t = "map"    -> "MAP"
      [] OTHER        -> t

Upper(s) == [i \in 1..Len(s) |-> UpperTok(s[i])]

\* `piece in text`
Contains(s, piece) == \E i \in 1..Len(s) : s[i] = piece

\* text.endswith(suffix)
EndsWith(s, suffix) == Len(s) > 0 /\ s[Len(s)] = suffix

BBOX == <<"b", "b", "o", "x">>

(***************************************************************************)
(* Inputs                                                                  *)
(***************************************************************************)

Col(name, type) == [name |-> name, type |-> type]

ColBbox     == Col(<<"b", "b", "o", "x">>, <<"STRUCT", "DOUBLE">>)
ColBboxCaps == Col(<<"B", "B", "o", "X">>, <<"STRUCT", "DOUBLE">>)
ColBboxLong == Col(<<"b", "b", "o", "x", "_">>, <<"STRUCT", "DOUBLE">>)
ColBboxPre  == Col(<<"_", "b", "b", "o", "x">>, <<"DOUBLE">>)
ColId       == Col(<<"i", "d">>, <<"VARCHAR">>)
ColNames    == Col(<<"n", "a", "m", "e", "s">>, <<"STRUCT", "VARCHAR">>)
ColTags     == Col(<<"t", "a", "g", "s">>, <<"MAP", "VARCHAR", "VARCHAR">>)
ColTagsLow  == Col(<<"t", "a", "g", "s">>, <<"map", "VARCHAR", "VARCHAR">>)
ColWebs     == Col(<<"w", "e", "b", "s">>, <<"VARCHAR", "[]">>)
ColSources  == Col(<<"s", "r", "c">>, <<"STRUCT", "VARCHAR", "[]">>)
ColMaps     == Col(<<"m", "p", "s">>, <<"MAP", "VARCHAR", "VARCHAR", "[]">>)

\* Columns the query-builder specification draws schemas from.
Columns ==
    {ColBbox, ColBboxCaps, ColBboxLong, ColBboxPre, ColId, ColNames, ColTags,
     ColTagsLow, ColWebs, ColSources, ColMaps}

SeqUpTo(S, n) == UNION {[1..k -> S] : k \in 0..n}

SchemasQB == SeqUpTo(Columns, MaxCols)

\* Schemas of the datasets the coordinator specification downloads from.
Schemas ==
    { <<ColSources, ColBboxCaps>>,
      <<ColId, ColBboxLong>> }

FileParquet == <<"out", ".parquet">>
FileGpkg    == <<"out", ".gpkg">>
FileCsv     == <<"out", ".csv">>
FileCaps    == <<"out", ".PARQUET">>
FileBak     == <<"out", ".parquet", ".bak">>

\* Names the save dialog can return ("" -- the empty sequence -- on cancel).
Files == {FileParquet, FileGpkg, FileCsv}

FilesQB == {FileParquet, FileGpkg, FileCsv, FileCaps, FileBak}

(***************************************************************************)
(* Schema inspection and query building (Worker.run, lines 43-133)         *)
(***************************************************************************)

\* A prefix test in place of the equality of line 45.
has_bbox_prefix(schema_result) ==
    \E i \in 1..Len(schema_result) :
        /\ Len(schema_result[i].name) >= Len(BBOX)
        /\ SubSeq(Lower(schema_result[i].name), 1, Len(BBOX)) = BBOX

\* Worker.run line 45: any(row[0].lower() == 'bbox' for row in schema_result)
has_bbox(schema_result) ==
    \E i \in 1..Len(schema_result) : Lower(schema_result[i].name) = BBOX

\* validate_and_accept line 237: the dialog's own copy of the same test.
dialog_has_bbox(schema_result) ==
    \E i \in 1..Len(schema_result) : Lower(schema_result[i].name) = BBOX

\* Lines 89-94 with the array test first.
column_expr_array_first(row) ==
    IF Contains(row.type, "[]")
    THEN [fn |-> "array_to_string", col |-> row.name, as |-> row.name]
    ELSE IF Contains(Upper(row.type), "STRUCT") \/ Contains(Upper(row.type), "MAP")
         THEN [fn |-> "TO_JSON", col |-> row.name, as |-> row.name]
         ELSE [fn |-> "", col |-> row.name, as |-> row.name]

\* Lines 85-94: one entry of `columns`.
column_expr(row) ==
    IF Contains(Upper(row.type), "STRUCT") \/ Contains(Upper(row.type), "MAP")
    THEN [fn |-> "TO_JSON", col |-> row.name, as |-> row.name]
    ELSE IF Contains(row.type, "[]")
         THEN [fn |-> "array_to_string", col |-> row.name, as |-> row.name]
         ELSE [fn |-> "", col |-> row.name, as |-> row.name]

SelectStar == <<[fn |-> "", col |-> <<"*">>, as |-> <<"*">>]>>

NamesPrimary ==
    [fn |-> "", col |-> <<"names.primary">>, as |-> <<"n", "a", "m", "e">>]

\* Lines 75-98: select_query.  The assignment of line 98 sits inside the loop,
\* so an empty schema leaves "SELECT *"; after the last iteration it holds the
\* enrichment field followed by every column.
select_query(output_file, schema_result) ==
    IF EndsWith(output_file, ".parquet") \/ Len(schema_result) = 0
    THEN SelectStar
    ELSE <<NamesPrimary>>
         \o [i \in 1..Len(schema_result) |-> column_expr(schema_result[i])]

\* Lines 100-117: where_clause.
where_clause(bbox_found) ==
    IF bbox_found THEN "bbox_range" ELSE "st_intersects"

NoOptions == "unbound"

\* Lines 128-133 with the GDAL options as the fallback of the else branch.
format_options_fallback(output_file) ==
    IF EndsWith(output_file, ".parquet") THEN "FORMAT parquet, COMPRESSION ZSTD"
    ELSE "FORMAT GDAL, DRIVER GPKG"

\* Lines 128-133: format_options; no branch assigns it for another extension.
format_options(output_file) ==
    IF EndsWith(output_file, ".parquet") THEN "FORMAT parquet, COMPRESSION ZSTD"
    ELSE IF EndsWith(output_file, ".gpkg") THEN "FORMAT GDAL, DRIVER GPKG"
    ELSE NoOptions

MsgNoBbox      == "only GeoParquet 1.1 files with a bbox column are supported"
MsgUnsupported == "Unsupported file format."
MsgUnbound     == "local variable 'format_options' referenced before assignment"

\* str(e) of the exception a failing backend statement raises.
EngineMsg(stmt) ==
    CASE stmt = "INSTALL"  -> "engine error: INSTALL"
      [] stmt = "LOAD"     -> "engine error: LOAD"
      [] stmt = "DESCRIBE" -> "engine error: DESCRIBE"
      [] stmt = "COPY"     -> "engine error: COPY"

(***************************************************************************)
(* DataSourceDialog.validate_and_accept (lines 216-267)                    *)
(***************************************************************************)

\* validate_and_accept without the return of line 242.
validate_and_accept_no_return(url_kind, readable, schema_result) ==
    IF url_kind = "empty"
    THEN [accepted |-> FALSE, introspected |-> FALSE, bbox |-> FALSE,
          preset |-> FALSE]
    ELSE IF url_kind = "preset"
    THEN [accepted |-> TRUE, introspected |-> FALSE, bbox |-> FALSE,
          preset |-> TRUE]
    ELSE IF ~readable
    THEN [accepted |-> FALSE, introspected |-> FALSE, bbox |-> FALSE,
          preset |-> FALSE]
    ELSE [accepted |-> TRUE, introspected |-> TRUE,
          bbox |-> dialog_has_bbox(schema_result), preset |-> FALSE]

\* url_kind: "empty" (custom entry left blank), "custom" or "preset";
\* readable: whether connect / INSTALL / LOAD / DESCRIBE all succeed.
validate_and_accept(url_kind, readable, schema_result) ==
    IF url_kind = "empty"
    THEN [accepted |-> FALSE, introspected |-> FALSE, bbox |-> FALSE,
          preset |-> FALSE]
    ELSE IF url_kind = "preset"
    THEN [accepted |-> TRUE, introspected |-> FALSE, bbox |-> FALSE,
          preset |-> TRUE]
    ELSE IF ~readable
    THEN [accepted |-> FALSE, introspected |-> FALSE, bbox |-> FALSE,
          preset |-> FALSE]
    ELSE [accepted |-> dialog_has_bbox(schema_result), introspected |-> TRUE,
          bbox |-> dialog_has_bbox(schema_result), preset |-> FALSE]

(***************************************************************************)
(* State                                                                   *)
(***************************************************************************)

VARIABLES
    worker,         \* QgisPluginGeoParquet.worker: a worker id or None
    worker_thread,  \* QgisPluginGeoParquet.worker_thread: its thread, or None
    created,        \* number of Worker objects constructed so far
    cpc,            \* control context: "loop" (event loop) or "wait" (QThread.wait)
    caller,         \* who entered cleanup_thread: "das", "finished", "unload", ""
    pending,        \* arguments of the download_and_save that is waiting
    req,            \* per worker: output_file, schema of its dataset, admission
    pc,             \* per worker: position of run()
    killed,         \* per worker: Worker.killed
    thr,            \* per worker: its QThread: "none", "running", "quitting", "finished"
    conn,           \* per worker: what happened to its duckdb connection, in order
    bbox_found,     \* per worker: the local has_bbox of run()
    copy_query,     \* per worker: the query built by run()
    exc,            \* per worker: str(e) of the exception being handled
    emitted,        \* per worker: signals emitted by run(), in order
    queue,          \* control context's event queue: posted signals
    slot,           \* the slot the control context ran last
    qb              \* query-builder specification: inputs and results

cvars == <<worker, worker_thread, created, cpc, caller, pending>>
wvars == <<req, pc, killed, thr, conn, bbox_found, copy_query, exc, emitted>>
vars  == <<cvars, wvars, queue, slot, qb>>

NoReq    == [output_file |-> <<>>, schema |-> <<>>,
             admit |-> validate_and_accept("empty", FALSE, <<>>)]
NoQuery  == [select |-> <<>>, where |-> "", options |-> ""]
NoSlot   == [sig |-> "", w |-> None, late |-> FALSE, target |-> None]
QbIdle   == [stage |-> "off", output_file |-> <<>>, schema |-> <<>>,
             worker_bbox |-> FALSE, dialog_bbox |-> FALSE, select |-> <<>>]

\* QgisPluginGeoParquet.__init__: no worker, no thread.
Init ==
    /\ worker = None
    /\ worker_thread = None
    /\ created = 0
    /\ cpc = "loop"
    /\ caller = ""
    /\ pending = NoReq
    /\ req = [w \in Workers |-> NoReq]
    /\ pc = [w \in Workers |-> "unborn"]
    /\ killed = [w \in Workers |-> FALSE]
    /\ thr = [w \in Workers |-> "none"]
    /\ conn = [w \in Workers |-> <<>>]
    /\ bbox_found = [w \in Workers |-> FALSE]
    /\ copy_query = [w \in Workers |-> NoQuery]
    /\ exc = [w \in Workers |-> ""]
    /\ emitted = [w \in Workers |-> <<>>]
    /\ queue = <<>>
    /\ slot = NoSlot
    /\ qb = QbIdle

(***************************************************************************)
(* Worker.run (lines 24-154), one action per step of the background thread *)
(***************************************************************************)

Signal(sig, w, msg) == [sig |-> sig, w |-> w, msg |-> msg]

\* pyqtSignal.emit from the worker's thread: the call is posted to the
\* control context.
Emit(w, sigs) ==
    /\ emitted' = [emitted EXCEPT ![w] = @ \o sigs]
    /\ queue' = queue \o sigs

\* conn.execute(stmt): the statement reaches the backend; it returns (ok) or
\* raises, which transfers control to the except clause of line 150.
Execute(w, stmt, ok, next) ==
    /\ conn' = [conn EXCEPT ![w] = Append(@, stmt)]
    /\ IF ok
       THEN /\ pc' = [pc EXCEPT ![w] = next]
            /\ exc' = exc
       ELSE /\ pc' = [pc EXCEPT ![w] = "except"]
            /\ exc' = [exc EXCEPT ![w] = EngineMsg(stmt)]

\* Line 36: duckdb.connect(), outside the try: a failure leaves run() by an
\* exception nobody handles.
WConnect(w) ==
    /\ pc[w] = "connect"
    /\ \E ok \in BOOLEAN :
         IF ok
         THEN /\ conn' = [conn EXCEPT ![w] = <<"open">>]
              /\ pc' = [pc EXCEPT ![w] = "install"]
              /\ exc' = exc
         ELSE /\ conn' = conn
              /\ pc' = [pc EXCEPT ![w] = "done"]
              /\ exc' = [exc EXCEPT ![w] = "uncaught: connect"]
    /\ UNCHANGED <<cvars, req, killed, thr, bbox_found, copy_query, emitted,
                   queue, slot, qb>>

\* Line 39.
WInstall(w) ==
    /\ pc[w] = "install"
    /\ \E ok \in BOOLEAN : Execute(w, "INSTALL", ok, "load")
    /\ UNCHANGED <<cvars, req, killed, thr, bbox_found, copy_query, emitted,
                   queue, slot, qb>>

\* Line 40.
WLoad(w) ==
    /\ pc[w] = "load"
    /\ \E ok \in BOOLEAN : Execute(w, "LOAD", ok, "describe")
    /\ UNCHANGED <<cvars, req, killed, thr, bbox_found, copy_query, emitted,
                   queue, slot, qb>>

\* Lines 43-45.
WDescribe(w) ==
    /\ pc[w] = "describe"
    /\ \E ok \in BOOLEAN :
         /\ Execute(w, "DESCRIBE", ok, "check_bbox")
         /\ bbox_found' = [bbox_found EXCEPT
                             ![w] = IF ok THEN has_bbox(req[w].schema) ELSE @]
    /\ UNCHANGED <<cvars, req, killed, thr, copy_query, emitted, queue,
                   slot, qb>>

\* Lines 47-49 without the return of line 50.
WCheckBboxNoReturn(w) ==
    /\ pc[w] = "check_bbox"
    /\ IF ~bbox_found[w]
       THEN Emit(w, <<Signal("error", w, MsgNoBbox)>>)
       ELSE UNCHANGED <<emitted, queue>>
    /\ pc' = [pc EXCEPT ![w] = "select"]
    /\ UNCHANGED <<cvars, req, killed, thr, conn, bbox_found, copy_query, exc,
                   slot, qb>>

\* Lines 47-50: the missing-bbox error and the early return.
WCheckBbox(w) ==
    /\ pc[w] = "check_bbox"
    /\ IF ~bbox_found[w]
       THEN /\ Emit(w, <<Signal("error", w, MsgNoBbox)>>)
            /\ pc' = [pc EXCEPT ![w] = "finally"]
       ELSE /\ UNCHANGED <<emitted, queue>>
            /\ pc' = [pc EXCEPT ![w] = "select"]
    /\ UNCHANGED <<cvars, req, killed, thr, conn, bbox_found, copy_query, exc,
                   slot, qb>>

\* Lines 75-125: the selection list (with a second DESCRIBE unless the output
\* is .parquet), the WHERE clause and the base query.
WSelect(w) ==
    /\ pc[w] = "select"
    /\ IF EndsWith(req[w].output_file, ".parquet")
       THEN /\ pc' = [pc EXCEPT ![w] = "format"]
            /\ UNCHANGED <<conn, exc>>
            /\ copy_query' = [copy_query EXCEPT
                 ![w] = [select  |-> select_query(req[w].output_file, req[w].schema),
                         where   |-> where_clause(bbox_found[w]),
                         options |-> ""]]
       ELSE \E ok \in BOOLEAN :
            /\ Execute(w, "DESCRIBE", ok, "format")
            /\ copy_query' = [copy_query EXCEPT
                 ![w] = IF ok
                        THEN [select  |-> select_query(req[w].output_file,
                                                       req[w].schema),
                              where   |-> where_clause(bbox_found[w]),
                              options |-> ""]
                        ELSE @]
    /\ UNCHANGED <<cvars, req, killed, thr, bbox_found, emitted, queue,
                   slot, qb>>

\* Lines 128-133: format_options, or the unsupported-format error, after which
\* run() carries on.
WFormat(w) ==
    /\ pc[w] = "format"
    /\ copy_query' = [copy_query EXCEPT
                        ![w].options = format_options(req[w].output_file)]
    /\ IF format_options(req[w].output_file) = NoOptions
       THEN Emit(w, <<Signal("error", w, MsgUnsupported)>>)
       ELSE UNCHANGED <<emitted, queue>>
    /\ pc' = [pc EXCEPT ![w] = "check_killed"]
    /\ UNCHANGED <<cvars, req, killed, thr, conn, bbox_found, exc, slot, qb>>

\* run() without the checkpoint of lines 135-136.
WCheckKilledIgnored(w) ==
    /\ pc[w] = "check_killed"
    /\ pc' = [pc EXCEPT ![w] = "copy"]
    /\ UNCHANGED <<cvars, req, killed, thr, conn, bbox_found, copy_query, exc,
                   emitted, queue, slot, qb>>

\* Lines 135-136: the checkpoint before the terminal write.
WCheckKilled(w) ==
    /\ pc[w] = "check_killed"
    /\ pc' = [pc EXCEPT ![w] = IF killed[w] THEN "finally" ELSE "copy"]
    /\ UNCHANGED <<cvars, req, killed, thr, conn, bbox_found, copy_query, exc,
                   emitted, queue, slot, qb>>

\* Lines 139-144: reading the unassigned format_options raises
\* UnboundLocalError; otherwise the COPY is executed.
WCopy(w) ==
    /\ pc[w] = "copy"
    /\ IF copy_query[w].options = NoOptions
       THEN /\ pc' = [pc EXCEPT ![w] = "except"]
            /\ exc' = [exc EXCEPT ![w] = MsgUnbound]
            /\ conn' = conn
       ELSE \E ok \in BOOLEAN : Execute(w, "COPY", ok, "after_copy")
    /\ UNCHANGED <<cvars, req, killed, thr, bbox_found, copy_query, emitted,
                   queue, slot, qb>>

\* Lines 146-148: the success-emission checkpoint.
WSuccess(w) ==
    /\ pc[w] = "after_copy"
    /\ IF ~killed[w]
       THEN Emit(w, <<Signal("load_layer", w, "output_file"),
                      Signal("finished", w, "")>>)
       ELSE UNCHANGED <<emitted, queue>>
    /\ pc' = [pc EXCEPT ![w] = "finally"]
    /\ UNCHANGED <<cvars, req, killed, thr, conn, bbox_found, copy_query, exc,
                   slot, qb>>

\* Lines 150-152.
WExcept(w) ==
    /\ pc[w] = "except"
    /\ IF ~killed[w]
       THEN Emit(w, <<Signal("error", w, exc[w])>>)
       ELSE UNCHANGED <<emitted, queue>>
    /\ pc' = [pc EXCEPT ![w] = "finally"]
    /\ UNCHANGED <<cvars, req, killed, thr, conn, bbox_found, copy_query, exc,
                   slot, qb>>

\* run() without its finally clause: the connection is left open.
WFinallyNoClose(w) ==
    /\ pc[w] = "finally"
    /\ pc' = [pc EXCEPT ![w] = "done"]
    /\ UNCHANGED <<cvars, req, killed, thr, conn, bbox_found, copy_query, exc,
                   emitted, queue, slot, qb>>

\* Lines 153-154: conn.close(), then run() returns.
WFinally(w) ==
    /\ pc[w] = "finally"
    /\ conn' = [conn EXCEPT ![w] = Append(@, "close")]
    /\ pc' = [pc EXCEPT ![w] = "done"]
    /\ UNCHANGED <<cvars, req, killed, thr, bbox_found, copy_query, exc,
                   emitted, queue, slot, qb>>

\* The thread's event loop ends once quit() was requested and the slot it is
\* running (run) has returned.
run_returned(w) == pc[w] = "done"

ThreadExit(w) ==
    /\ thr[w] = "quitting"
    /\ run_returned(w)
    /\ thr' = [thr EXCEPT ![w] = "finished"]
    /\ UNCHANGED <<cvars, req, pc, killed, conn, bbox_found, copy_query, exc,
                   emitted, queue, slot, qb>>

(***************************************************************************)
(* QgisPluginGeoParquet (lines 272-370), the control context               *)
(***************************************************************************)

\* Lines 341-353 without the assignment of line 340.
StartThreadOnly(r) ==
    /\ worker' = worker
    /\ worker_thread' = created + 1
    /\ created' = created + 1
    /\ req' = [req EXCEPT ![created + 1] = r]
    /\ pc' = [pc EXCEPT ![created + 1] = "connect"]
    /\ thr' = [thr EXCEPT ![created + 1] = "running"]
    /\ cpc' = "loop"
    /\ caller' = ""
    /\ pending' = NoReq

\* Lines 340-353: a new Worker and QThread, signals connected, thread started.
Start(r) ==
    /\ worker' = created + 1
    /\ worker_thread' = created + 1
    /\ created' = created + 1
    /\ req' = [req EXCEPT ![created + 1] = r]
    /\ pc' = [pc EXCEPT ![created + 1] = "connect"]
    /\ thr' = [thr EXCEPT ![created + 1] = "running"]
    /\ cpc' = "loop"
    /\ caller' = ""
    /\ pending' = NoReq

\* cleanup_thread without the quit() of line 358.
CleanupBeginNoQuit(who, r) ==
    /\ killed' = [killed EXCEPT ![worker] = TRUE]
    /\ thr' = thr
    /\ cpc' = "wait"
    /\ caller' = who
    /\ pending' = r

\* Lines 356-359: kill() and quit() are issued, then wait() blocks.
CleanupBegin(who, r) ==
    /\ killed' = [killed EXCEPT ![worker] = TRUE]
    /\ thr' = [thr EXCEPT ![worker_thread] =
                 IF @ = "running" THEN "quitting" ELSE @]
    /\ cpc' = "wait"
    /\ caller' = who
    /\ pending' = r

\* Lines 306-332 and 334-338: the dialog, the save-file dialog, and the entry
\* of download_and_save.
Run ==
    /\ cpc = "loop"
    /\ created < MaxReq
    /\ \E url_kind \in {"empty", "custom", "preset"}, readable \in BOOLEAN,
          schema \in Schemas, file \in Files \cup {<<>>} :
         LET admit == validate_and_accept(url_kind, readable, schema)
             r     == [output_file |-> file, schema |-> schema, admit |-> admit]
         IN  IF admit.accepted /\ file # <<>>
             THEN IF worker_thread # None
                  THEN /\ CleanupBegin("das", r)
                       /\ UNCHANGED <<worker, worker_thread, created, req, pc>>
                  ELSE /\ Start(r)
                       /\ UNCHANGED killed
             ELSE UNCHANGED <<cvars, req, pc, killed, thr>>
    /\ UNCHANGED <<conn, bbox_found, copy_query, exc, emitted, queue, slot, qb>>

\* Lines 296-300.
Unload ==
    /\ cpc = "loop"
    /\ IF worker_thread # None
       THEN /\ CleanupBegin("unload", NoReq)
            /\ UNCHANGED <<worker, worker_thread, created>>
       ELSE UNCHANGED <<cvars, killed, thr>>
    /\ UNCHANGED <<req, pc, conn, bbox_found, copy_query, exc, emitted, queue,
                   slot, qb>>

\* What the control context sees when it runs the slot of a posted signal:
\* whether the sender's thread had already been waited for, and which thread
\* the coordinator holds.
Slot(e) ==
    [sig |-> e.sig, w |-> e.w, late |-> thr[e.w] = "finished",
     target |-> worker_thread]

\* The slots of lines 348-350, run by the event loop for the oldest posted
\* signal: the message box, load_layer, or cleanup_thread.
Dispatch ==
    /\ cpc = "loop"
    /\ queue # <<>>
    /\ queue' = Tail(queue)
    /\ slot' = Slot(Head(queue))
    /\ IF Head(queue).sig = "finished" /\ worker_thread # None
       THEN /\ CleanupBegin("finished", NoReq)
            /\ UNCHANGED <<worker, worker_thread, created>>
       ELSE UNCHANGED <<cvars, killed, thr>>
    /\ UNCHANGED <<req, pc, conn, bbox_found, copy_query, exc, emitted, qb>>

\* wait() that does not block: what cleanup_thread would be without line 359.
wait_skipped(t) == TRUE

\* QThread.wait() returns when the thread has finished.
wait_returns(t) == thr[t] = "finished"

\* Lines 360-361 drop the last references to the Worker: the object and the
\* locals of its run() are gone; only its flag, position and thread state are
\* kept, to tell what a signal still posted came from.
Release(f, w, init) == [f EXCEPT ![w] = init]

\* Lines 359-361, and for download_and_save lines 340-353 after them.
WaitReturn ==
    /\ cpc = "wait"
    /\ wait_returns(worker_thread)
    /\ conn' = Release(conn, worker, <<>>)
    /\ bbox_found' = Release(bbox_found, worker, FALSE)
    /\ copy_query' = Release(copy_query, worker, NoQuery)
    /\ exc' = Release(exc, worker, "")
    /\ emitted' = Release(emitted, worker, <<>>)
    /\ IF caller = "das"
       THEN /\ worker' = created + 1
            /\ worker_thread' = created + 1
            /\ created' = created + 1
            /\ req' = [Release(req, worker, NoReq) EXCEPT ![created + 1] = pending]
            /\ pc' = [pc EXCEPT ![created + 1] = "connect"]
            /\ thr' = [thr EXCEPT ![created + 1] = "running"]
            /\ cpc' = "loop"
            /\ caller' = ""
            /\ pending' = NoReq
       ELSE /\ worker' = None
            /\ worker_thread' = None
            /\ cpc' = "loop"
            /\ caller' = ""
            /\ pending' = NoReq
            /\ req' = Release(req, worker, NoReq)
            /\ UNCHANGED <<created, pc, thr>>
    /\ UNCHANGED <<killed, queue, slot, qb>>

WorkerStep(w) ==
    \/ WConnect(w)
    \/ WInstall(w)
    \/ WLoad(w)
    \/ WDescribe(w)
    \/ WCheckBbox(w)
    \/ WSelect(w)
    \/ WFormat(w)
    \/ WCheckKilled(w)
    \/ WCopy(w)
    \/ WSuccess(w)
    \/ WExcept(w)
    \/ WFinally(w)
    \/ ThreadExit(w)

Next ==
    \/ Run
    \/ Unload
    \/ Dispatch
    \/ WaitReturn
    \/ \E w \in Workers : WorkerStep(w)

Spec == Init /\ [][Next]_vars

\* The same, with the scheduling the platform provides: a thread that can
\* take a step of run() or leave its event loop eventually does (every backend
\* call returns), and a wait() that can return does.
FairSpec ==
    /\ Init
    /\ [][Next]_vars
    /\ WF_vars(\E w \in Workers : WorkerStep(w))
    /\ WF_vars(WaitReturn)

(***************************************************************************)
(* Query-builder specification: the schema inspection and the selection    *)
(* list on every schema of up to MaxCols columns and every file name       *)
(***************************************************************************)

InitQB ==
    /\ worker = None
    /\ worker_thread = None
    /\ created = 0
    /\ cpc = "loop"
    /\ caller = ""
    /\ pending = NoReq
    /\ req = [w \in Workers |-> NoReq]
    /\ pc = [w \in Workers |-> "unborn"]
    /\ killed = [w \in Workers |-> FALSE]
    /\ thr = [w \in Workers |-> "none"]
    /\ conn = [w \in Workers |-> <<>>]
    /\ bbox_found = [w \in Workers |-> FALSE]
    /\ copy_query = [w \in Workers |-> NoQuery]
    /\ exc = [w \in Workers |-> ""]
    /\ emitted = [w \in Workers |-> <<>>]
    /\ queue = <<>>
    /\ slot = NoSlot
    /\ \E f \in FilesQB, s \in SchemasQB :
         qb = [QbIdle EXCEPT !.stage = "input", !.output_file = f, !.schema = s]

\* Lines 43-50 of the worker and 233-242 of the dialog on the same schema.
QBInspect ==
    /\ qb.stage = "input"
    /\ qb' = [qb EXCEPT !.worker_bbox = has_bbox(qb.schema),
                        !.dialog_bbox = dialog_has_bbox(qb.schema),
                        !.stage = IF has_bbox(qb.schema)
                                  THEN "inspected" ELSE "rejected"]
    /\ UNCHANGED <<cvars, wvars, queue, slot>>

\* Lines 75-98 on a schema that passed line 47.
QBSelect ==
    /\ qb.stage = "inspected"
    /\ qb' = [qb EXCEPT !.select = select_query(qb.output_file, qb.schema),
                        !.stage = "built"]
    /\ UNCHANGED <<cvars, wvars, queue, slot>>

NextQB == QBInspect \/ QBSelect

SpecQB == InitQB /\ [][NextQB]_vars

(***************************************************************************)
(* Properties                                                              *)
(***************************************************************************)

IsOutcome(e) == e.sig \in {"error", "load_layer"}

\* The success and failure notifications a worker has emitted.
Outcomes(w) == SelectSeq(emitted[w], IsOutcome)

Finished(w) == \E i \in 1..Len(emitted[w]) : emitted[w][i].sig = "finished"

Last(s) == s[Len(s)]

Born(w) == pc[w] # "unborn" /\ req[w] # NoReq

\* C1: once kill() has set a worker's killed flag, its run() emits no further
\* success or failure notification, whatever path run() takes.
C1_NoOutcomeAfterKill ==
    [][\A w \in Workers :
         killed[w] => Len(Outcomes(w)') <= Len(Outcomes(w))]_vars

\* C2: a run() that opened its connection and was never killed emits exactly
\* one outcome notification in total, and no run() ever emits more than one.
C2_ExactlyOneOutcome ==
    \A w \in Workers :
        /\ Len(Outcomes(w)) <= 1
        /\ (pc[w] = "done" /\ ~killed[w] /\ conn[w] # <<>>)
              => Len(Outcomes(w)) = 1

ThreadLive(w) == thr[w] \in {"running", "quitting"}

ConnOpen(w) == conn[w] # <<>> /\ Last(conn[w]) # "close"

\* C3: at most one background context is live at a time: while one worker's
\* thread is live, every other worker's thread has not started or has been
\* waited for, its run() is not in progress and its connection is not open.
C3_OneLiveContext ==
    \A w, v \in Workers :
        (w # v /\ ThreadLive(w))
            => /\ thr[v] \in {"none", "finished"}
               /\ pc[v] \in {"unborn", "done"}
               /\ ~ConnOpen(v)

\* C3 witness: a new request found a worker running; that worker was killed,
\* has unwound without an outcome and closed its connection, its thread has
\* finished, and the new worker is about to be started.
C3_Witness ==
    /\ cpc = "wait"
    /\ caller = "das"
    /\ thr[worker_thread] = "finished"
    /\ killed[worker]
    /\ Len(conn[worker]) > 1
    /\ Last(conn[worker]) = "close"
    /\ emitted[worker] = <<>>

\* C4: no success or failure notification of a worker is handled by the
\* control context after cleanup_thread has killed and waited for that worker.
C4_NoLateNotification ==
    ~(slot.sig \in {"error", "load_layer"} /\ slot.late)

\* C5: a run() that has ended with a success or failure notification has also
\* emitted finished.
C5_FinishedAfterOutcome ==
    \A w \in Workers :
        (pc[w] = "done" /\ Outcomes(w) # <<>>) => Finished(w)

Statements == {"INSTALL", "LOAD", "DESCRIBE", "COPY"}

Unsupported(f) == ~EndsWith(f, ".parquet") /\ ~EndsWith(f, ".gpkg")

HasError(w, msg) ==
    \E i \in 1..Len(emitted[w]) :
        emitted[w][i].sig = "error" /\ emitted[w][i].msg = msg

\* C6: a request whose output file ends in neither .parquet nor .gpkg executes
\* no statement at all on its backend connection.
C6_NoBackendCalls ==
    \A w \in Workers :
        (Born(w) /\ Unsupported(req[w].output_file))
            => \A i \in 1..Len(conn[w]) : conn[w][i] \notin Statements

\* C6 as amended: such a request never executes the COPY; what it executes
\* is INSTALL, LOAD and at most two DESCRIBE, in that order; and once run()
\* has passed the format step its first notification is the
\* unsupported-format failure.
C6_NoCopyForUnsupported ==
    \A w \in Workers :
        (Born(w) /\ Unsupported(req[w].output_file))
            => /\ \E k \in 0..Len(conn[w]) :
                    SubSeq(conn[w], 1, k) \in
                        {SubSeq(<<"open", "INSTALL", "LOAD", "DESCRIBE", "DESCRIBE">>, 1, j) :
                            j \in 0..5}
                    /\ (k < Len(conn[w]) => (k + 1 = Len(conn[w]) /\ Last(conn[w]) = "close"))
               /\ (pc[w] \in {"check_killed", "copy"} \/ exc[w] = MsgUnbound)
                     => /\ emitted[w] # <<>>
                        /\ emitted[w][1] = Signal("error", w, MsgUnsupported)

\* C6 witness: an unsupported-format request has run to its end, having
\* executed its four statements and reported the failure.
C6_Witness ==
    \E w \in Workers :
        /\ Born(w) /\ Unsupported(req[w].output_file)
        /\ pc[w] = "done"
        /\ conn[w] = <<"open", "INSTALL", "LOAD", "DESCRIBE", "DESCRIBE", "close">>
        /\ HasError(w, MsgUnsupported)

\* C7: a worker is started only for a source whose schema was introspected by
\* the dialog and found to have a bbox column.
C7_AcceptedOnlyIfValidated ==
    \A w \in Workers :
        Born(w) => (req[w].admit.introspected /\ req[w].admit.bbox)

\* C7 as amended: a worker is started only after the dialog accepted; for a
\* custom URL that means the schema was introspected and has a bbox column,
\* while a preset source is accepted without any introspection.
C7_CustomOnlyIfValidated ==
    \A w \in Workers :
        Born(w) =>
            /\ req[w].admit.accepted
            /\ req[w].output_file # <<>>
            /\ ~req[w].admit.preset =>
                  /\ req[w].admit.introspected
                  /\ req[w].admit.bbox
                  /\ \E i \in 1..Len(req[w].schema) :
                        Lower(req[w].schema[i].name) = <<"b", "b", "o", "x">>
            /\ req[w].admit.preset => ~req[w].admit.introspected

\* C7 witness: a worker was started for a custom URL that passed validation.
C7_Witness ==
    \E w \in Workers :
        Born(w) /\ ~req[w].admit.preset /\ req[w].admit.introspected

Count(s, x) == Cardinality({i \in 1..Len(s) : s[i] = x})

\* C8: run() opens at most one connection, as the first thing it does with
\* the backend; past line 36 it holds exactly one; the connection is closed
\* at most once, nothing is done with it after the close, and it is closed
\* when run() has returned.
C8_ConnectionClosedOnce ==
    \A w \in Workers :
        LET c == conn[w] IN
        /\ Count(c, "open") <= 1
        /\ Count(c, "close") <= 1
        /\ c # <<>> => c[1] = "open"
        /\ \A i \in 1..Len(c) : c[i] = "close" => i = Len(c)
        /\ (Born(w) /\ pc[w] \notin {"connect", "done"}) => Count(c, "open") = 1
        /\ (Born(w) /\ pc[w] \notin {"connect", "done"}) => Count(c, "close") = 0
        /\ (Born(w) /\ pc[w] = "done" /\ exc[w] # "uncaught: connect")
              => (Count(c, "open") = 1 /\ Last(c) = "close")

\* C8 witness: a run() that observed the kill at the checkpoint of line 135
\* has returned with its connection closed and no COPY executed.
C8_Witness ==
    \E w \in Workers :
        /\ Born(w) /\ pc[w] = "done" /\ killed[w]
        /\ copy_query[w].options \notin {"", NoOptions}
        /\ Count(conn[w], "COPY") = 0
        /\ Last(conn[w]) = "close"

\* Type families, by the outermost constructor of the declared type.
ArrayLike(type)  == Len(type) > 0 /\ type[Len(type)] = "[]"
StructLike(type) == ~ArrayLike(type) /\ type[1] \in {"STRUCT", "struct"}
MapLike(type)    == ~ArrayLike(type) /\ type[1] \in {"MAP", "map"}

MentionsNested(type) ==
    \E i \in 1..Len(type) : type[i] \in {"STRUCT", "struct", "MAP", "map"}

\* C9: for a non-.parquet output the selection list is names.primary followed
\* by one entry per schema column, in order and under its own name: JSON for a
\* STRUCT-like or MAP-like column, ', '-joined text for every ARRAY-like column
\* (arrays of structs or maps included), the column itself otherwise; for a
\* .parquet output it is "*".
C9_ArrayAlwaysJoined ==
    qb.stage = "built" =>
        IF qb.output_file[Len(qb.output_file)] = ".parquet"
        THEN qb.select = <<[fn |-> "", col |-> <<"*">>, as |-> <<"*">>]>>
        ELSE /\ Len(qb.select) = Len(qb.schema) + 1
             /\ qb.select[1].col = <<"names.primary">>
             /\ \A i \in 1..Len(qb.schema) :
                  /\ qb.select[i + 1].col = qb.schema[i].name
                  /\ qb.select[i + 1].as = qb.schema[i].name
                  /\ qb.select[i + 1].fn =
                        IF ArrayLike(qb.schema[i].type) THEN "array_to_string"
                        ELSE IF StructLike(qb.schema[i].type)
                                \/ MapLike(qb.schema[i].type) THEN "TO_JSON"
                        ELSE ""

\* C9 as amended: as C9, except that every column whose declared type mentions
\* STRUCT or MAP anywhere, an array of structs or maps included, is rewritten
\* to JSON, and only the other ARRAY-like columns are ', '-joined.
C9_NestedToJson ==
    qb.stage = "built" =>
        IF qb.output_file[Len(qb.output_file)] = ".parquet"
        THEN qb.select = <<[fn |-> "", col |-> <<"*">>, as |-> <<"*">>]>>
        ELSE /\ Len(qb.select) = Len(qb.schema) + 1
             /\ qb.select[1].col = <<"names.primary">>
             /\ \A i \in 1..Len(qb.schema) :
                  /\ qb.select[i + 1].col = qb.schema[i].name
                  /\ qb.select[i + 1].as = qb.schema[i].name
                  /\ qb.select[i + 1].fn =
                        IF MentionsNested(qb.schema[i].type) THEN "TO_JSON"
                        ELSE IF ArrayLike(qb.schema[i].type) THEN "array_to_string"
                        ELSE ""

\* C9 witness: a selection list was built for a .gpkg output from a schema
\* with an array-of-structs column.
C9_Witness ==
    /\ qb.stage = "built"
    /\ qb.output_file = FileGpkg
    /\ \E i \in 1..Len(qb.schema) :
         ArrayLike(qb.schema[i].type) /\ MentionsNested(qb.schema[i].type)

\* The sixteen spellings of bbox.
BboxSpellings ==
    {<<a, b, c, d>> : a \in {"b", "B"}, b \in {"b", "B"},
                      c \in {"o", "O"}, d \in {"x", "X"}}

\* C10: the worker finds a bbox column exactly when some column's name is
\* bbox in some letter case, and the dialog finds the same.
C10_BboxDetection ==
    qb.stage \in {"inspected", "rejected", "built"} =>
        /\ qb.worker_bbox =
              (\E i \in 1..Len(qb.schema) : qb.schema[i].name \in BboxSpellings)
        /\ qb.dialog_bbox = qb.worker_bbox

\* C10 witness: a schema whose only bbox-like names are a mixed-case bbox and
\* a longer name was inspected and the column found.
C10_Witness ==
    /\ qb.stage = "inspected"
    /\ qb.schema = <<ColBboxLong, ColBboxCaps>>
    /\ qb.worker_bbox

\* C11: the finished signal of one worker only ever makes cleanup_thread tear
\* down that same worker: when its slot runs and the coordinator holds a
\* thread, it is the sender's.
C11_FinishedOnlyOwnWorker ==
    (slot.sig = "finished" /\ slot.target # None) => slot.target = slot.w

\* C12: a worker whose killed flag is set when run() is at the checkpoint of
\* line 135 returns without executing the COPY (the flag is never reset, and
\* the COPY is only reachable through that checkpoint); a kill that arrives
\* after the checkpoint leaves the COPY to be executed, and is observed at
\* line 146, where nothing is emitted.
C12_KillBeforeCheckpoint ==
    [][\A w \in Workers :
         /\ killed[w] => killed'[w]
         /\ (killed[w] /\ pc[w] = "check_killed")
               => pc'[w] \in {"check_killed", "finally"}
         /\ (pc'[w] = "copy") => pc[w] \in {"copy", "check_killed"}
         /\ (Count(conn'[w], "COPY") > Count(conn[w], "COPY")) => pc[w] = "copy"
         /\ (killed[w] /\ pc[w] = "copy" /\ pc'[w] # "copy"
               /\ copy_query[w].options # NoOptions)
               => /\ conn'[w] = Append(conn[w], "COPY")
                  /\ pc'[w] \in {"after_copy", "except"}
         /\ (killed[w] /\ pc[w] = "after_copy")
               => Len(emitted'[w]) <= Len(emitted[w])]_vars

\* C12 witness: a worker with its query complete was killed before the
\* checkpoint and has left run()'s try block without a COPY and without any
\* notification.
C12_Witness ==
    \E w \in Workers :
        /\ Born(w) /\ killed[w] /\ pc[w] = "finally"
        /\ copy_query[w].options \notin {"", NoOptions}
        /\ exc[w] = ""
        /\ Count(conn[w], "COPY") = 0
        /\ emitted[w] = <<>>

LacksBbox(schema) ==
    ~\E i \in 1..Len(schema) : schema[i].name \in BboxSpellings

\* C13: a worker whose schema has no bbox column never executes the COPY,
\* and once its DESCRIBE has succeeded it reports the missing-bbox failure and
\* returns; every query that is executed filters on the bbox column, and the
\* geometry-intersection predicate is never built.
C13_CopyOnlyWithBbox ==
    \A w \in Workers :
        /\ copy_query[w].where # "st_intersects"
        /\ Count(conn[w], "COPY") > 0 => copy_query[w].where = "bbox_range"
        /\ (Born(w) /\ LacksBbox(req[w].schema)) =>
              /\ Count(conn[w], "COPY") = 0
              /\ pc[w] \in {"connect", "install", "load", "describe",
                            "check_bbox", "except", "finally", "done"}
              /\ (pc[w] \in {"finally", "done"} /\ exc[w] = ""
                     /\ Count(conn[w], "DESCRIBE") > 0)
                    => emitted[w] = <<Signal("error", w, MsgNoBbox)>>

\* C13 witness: a worker whose schema has no bbox column has returned after
\* its schema inspection with the missing-bbox failure.
C13_Witness ==
    \E w \in Workers :
        /\ Born(w) /\ LacksBbox(req[w].schema)
        /\ pc[w] = "done"
        /\ conn[w] = <<"open", "INSTALL", "LOAD", "DESCRIBE", "close">>
        /\ HasError(w, MsgNoBbox)

\* C14: for an output file ending in neither .parquet nor .gpkg the COPY is
\* never executed and no load_layer is emitted.
C14_UnsupportedNeverWrites ==
    \A w \in Workers :
        (Born(w) /\ Unsupported(req[w].output_file))
            => /\ Count(conn[w], "COPY") = 0
               /\ pc[w] # "after_copy"
               /\ \A i \in 1..Len(emitted[w]) :
                     emitted[w][i].sig \notin {"load_layer", "finished"}

\* C14 witness: an unkilled unsupported-format request has reported the
\* failure and stopped at the point where the COPY would have been built.
C14_Witness ==
    \E w \in Workers :
        /\ Born(w) /\ Unsupported(req[w].output_file)
        /\ ~killed[w]
        /\ pc[w] = "except"
        /\ exc[w] = MsgUnbound
        /\ HasError(w, MsgUnsupported)

\* C15: for a supported extension and no kill, a run() that ended because a
\* backend step raised (connect, INSTALL, LOAD, DESCRIBE or COPY) has emitted
\* exactly one notification, an error carrying the exception's text.
C15_BackendErrorReportedOnce ==
    \A w \in Workers :
        (Born(w) /\ ~Unsupported(req[w].output_file) /\ ~killed[w]
            /\ pc[w] = "done" /\ exc[w] # "")
            => /\ Len(Outcomes(w)) = 1
               /\ Outcomes(w)[1].sig = "error"
               /\ ~Finished(w)

\* C16: every cleanup_thread that has started waiting returns; when it
\* returns, the worker's run() has returned and its thread has finished, and
\* the coordinator's fields are cleared (to be set again at once when the
\* caller is download_and_save).
C16_CleanupTerminates ==
    /\ (cpc = "wait") ~> (cpc = "loop")
    /\ [][(cpc = "wait" /\ cpc' = "loop")
             => /\ pc[worker] = "done"
                /\ thr[worker_thread] = "finished"
                /\ ~ConnOpen(worker)
                /\ caller # "das" => (worker' = None /\ worker_thread' = None)
                /\ caller = "das" => (worker' \notin {None, worker}
                                        /\ worker_thread' = worker')]_vars

\* C16 witness: cleanup_thread, called from the finished slot, is waiting for
\* a worker whose run() is still inside the try block.
C16_Witness ==
    /\ cpc = "wait"
    /\ caller = "finished"
    /\ pc[worker] \notin {"finally", "done"}
    /\ thr[worker_thread] = "quitting"

\* C17: worker is None exactly when worker_thread is None; when set they are
\* the same worker / thread pair of a Worker that exists, and cleanup_thread
\* only waits with both set.
C17_WorkerIffThread ==
    /\ (worker = None) <=> (worker_thread = None)
    /\ worker_thread # None => (worker = worker_thread /\ pc[worker] # "unborn")
    /\ cpc = "wait" => worker # None

\* C17 witness: both fields are None again after a worker was created and
\* cleaned up.
C17_Witness ==
    /\ cpc = "loop"
    /\ created > 0
    /\ worker = None
    /\ worker_thread = None

====
